---- MODULE Spec2Model ----
(***************************************************************************)
(* Model of src/app.py, the ATS resume scanner: one Streamlit script that  *)
(* is re-run on every widget event.  A text is a sequence of one-character *)
(* strings, so that str.strip, str.startswith, the positional slice        *)
(* text[7:-3] and json.loads act on characters as they do in the source.   *)
(***************************************************************************)
EXTENDS Integers, Sequences, FiniteSets, TLC

(***************************************************************************)
(* Texts and the str methods the script uses                               *)
(***************************************************************************)

\* Python's None where a file is expected (session_state.resume, the file
\* picker without a file); the files are 1, 2, ...
None == 0

\* The whitespace characters of the modelled alphabet (str.strip, json.loads).
Whitespace == {" ", "\n"}

Digits == {"0", "1", "2", "3", "4", "5", "6", "7", "8", "9"}

RECURSIVE LStrip(_)
LStrip(s) == IF s # <<>> /\ Head(s) \in Whitespace THEN LStrip(Tail(s)) ELSE s

RECURSIVE RStrip(_)
RStrip(s) ==
    IF s # <<>> /\ s[Len(s)] \in Whitespace THEN RStrip(SubSeq(s, 1, Len(s) - 1)) ELSE s

\* str.strip()
Strip(s) == RStrip(LStrip(s))

\* str.startswith(p)
StartsWith(s, p) == Len(s) >= Len(p) /\ SubSeq(s, 1, Len(p)) = p

\* The Python slice s[start:-fromEnd] for start >= 0 and fromEnd > 0.
Slice(s, start, fromEnd) ==
    LET lo == IF start < Len(s) THEN start ELSE Len(s)
        hi == IF Len(s) - fromEnd > 0 THEN Len(s) - fromEnd ELSE 0
    IN  IF lo >= hi THEN <<>> ELSE SubSeq(s, lo + 1, hi)

RECURSIVE Join(_, _)
\* sep.join(parts)
Join(sep, parts) ==
    IF parts = <<>> THEN <<>>
    ELSE IF Len(parts) = 1 THEN parts[1]
    ELSE parts[1] \o sep \o Join(sep, Tail(parts))

(***************************************************************************)
(* json.loads, for the JSON the modelled alphabet can spell: objects,      *)
(* arrays, strings without escapes, integers, true, false, null.  A value  *)
(* is [t, v]: t its type and v a sequence (characters of a string or a     *)
(* number, elements of an array, <<key, value>> members of an object).     *)
(***************************************************************************)

Fail(i) == [ok |-> FALSE, val |-> [t |-> "null", v |-> <<>>], pos |-> i]
Ok(val, i) == [ok |-> TRUE, val |-> val, pos |-> i]

RECURSIVE SkipWs(_, _)
SkipWs(s, i) == IF i <= Len(s) /\ s[i] \in Whitespace THEN SkipWs(s, i + 1) ELSE i

\* s[i..] starts with the characters of lit
At(s, i, lit) == i + Len(lit) - 1 <= Len(s) /\ SubSeq(s, i, i + Len(lit) - 1) = lit

RECURSIVE StringEnd(_, _)
\* Index of the quote closing the string whose content starts at i; 0 when the
\* string is unterminated or holds a control character.
StringEnd(s, i) ==
    IF i > Len(s) \/ s[i] = "\n" THEN 0
    ELSE IF s[i] = "\"" THEN i
    ELSE StringEnd(s, i + 1)

ParseString(s, i) ==
    LET e == StringEnd(s, i + 1)
    IN  IF e = 0 THEN Fail(i)
        ELSE Ok([t |-> "str", v |-> SubSeq(s, i + 1, e - 1)], e + 1)

RECURSIVE DigitsEnd(_, _)
DigitsEnd(s, i) == IF i <= Len(s) /\ s[i] \in Digits THEN DigitsEnd(s, i + 1) ELSE i

ParseNumber(s, i) ==
    LET e == IF s[i] = "0" THEN i + 1 ELSE DigitsEnd(s, i)
    IN  Ok([t |-> "num", v |-> SubSeq(s, i, e - 1)], e)

RECURSIVE ParseValue(_, _)
RECURSIVE ParseElements(_, _, _)
RECURSIVE ParseMembers(_, _, _)

\* The elements of an array after "[" or ","; acc holds those parsed so far.
ParseElements(s, i, acc) ==
    LET r == ParseValue(s, i)
        j == SkipWs(s, r.pos)
    IN  IF ~r.ok \/ j > Len(s) THEN Fail(i)
        ELSE IF s[j] = "," THEN ParseElements(s, SkipWs(s, j + 1), Append(acc, r.val))
        ELSE IF s[j] = "]" THEN Ok([t |-> "arr", v |-> Append(acc, r.val)], j + 1)
        ELSE Fail(j)

\* The members of an object after "{" or ","; acc holds those parsed so far.
ParseMembers(s, i, acc) ==
    IF i > Len(s) \/ s[i] # "\"" THEN Fail(i)
    ELSE
      LET k == ParseString(s, i)
          c == SkipWs(s, k.pos)
      IN  IF ~k.ok \/ c > Len(s) \/ s[c] # ":" THEN Fail(i)
          ELSE
            LET r == ParseValue(s, SkipWs(s, c + 1))
                j == SkipWs(s, r.pos)
                members == Append(acc, <<k.val.v, r.val>>)
            IN  IF ~r.ok \/ j > Len(s) THEN Fail(i)
                ELSE IF s[j] = "," THEN ParseMembers(s, SkipWs(s, j + 1), members)
                ELSE IF s[j] = "}" THEN Ok([t |-> "obj", v |-> members], j + 1)
                ELSE Fail(j)

ParseValue(s, i) ==
    IF i > Len(s) THEN Fail(i)
    ELSE IF s[i] = "\"" THEN ParseString(s, i)
    ELSE IF s[i] = "{" THEN
        LET j == SkipWs(s, i + 1)
        IN  IF j <= Len(s) /\ s[j] = "}" THEN Ok([t |-> "obj", v |-> <<>>], j + 1)
            ELSE ParseMembers(s, j, <<>>)
    ELSE IF s[i] = "[" THEN
        LET j == SkipWs(s, i + 1)
        IN  IF j <= Len(s) /\ s[j] = "]" THEN Ok([t |-> "arr", v |-> <<>>], j + 1)
            ELSE ParseElements(s, j, <<>>)
    ELSE IF At(s, i, <<"n", "u", "l", "l">>) THEN Ok([t |-> "null", v |-> <<>>], i + 4)
    ELSE IF At(s, i, <<"t", "r", "u", "e">>) THEN Ok([t |-> "true", v |-> <<>>], i + 4)
    ELSE IF At(s, i, <<"f", "a", "l", "s", "e">>) THEN Ok([t |-> "false", v |-> <<>>], i + 5)
    ELSE IF s[i] \in Digits THEN ParseNumber(s, i)
    ELSE Fail(i)

\* json.loads(s): [ok, val]; ok = FALSE stands for json.JSONDecodeError.
\* Leading and trailing whitespace is skipped, anything else after the value is
\* "Extra data".
JsonLoads(s) ==
    LET r == ParseValue(s, SkipWs(s, 1))
    IN  IF r.ok /\ SkipWs(s, r.pos) = Len(s) + 1
        THEN [ok |-> TRUE, val |-> r.val]
        ELSE [ok |-> FALSE, val |-> r.val]

(***************************************************************************)
(* The fixed strings of the script                                         *)
(***************************************************************************)

TechnicalSkills ==
    <<"T", "e", "c", "h", "n", "i", "c", "a", "l", " ", "S", "k", "i", "l", "l", "s">>
AnalyticalSkills ==
    <<"A", "n", "a", "l", "y", "t", "i", "c", "a", "l", " ", "S", "k", "i", "l", "l", "s">>
SoftSkills == <<"S", "o", "f", "t", " ", "S", "k", "i", "l", "l", "s">>

\* The three keys the keyword branch reads, in the order it renders them.
Categories == <<TechnicalSkills, AnalyticalSkills, SoftSkills>>

\* The string get_gemini_response returns on ResourceExhausted; its first two
\* characters are the code points U+26A0 and U+FE0F.
QuotaMessage ==
    <<"U+26A0", "U+FE0F", " ", "G", "e", "m", "i", "n", "i", " ", "A", "P", "I", " ",
      "q", "u", "o", "t", "a", " ", "e", "x", "c", "e", "e", "d", "e", "d", ".", " ",
      "P", "l", "e", "a", "s", "e", " ", "w", "a", "i", "t", " ", "a", " ", "f", "e", "w",
      " ", "s", "e", "c", "o", "n", "d", "s", " ", "a", "n", "d", " ", "t", "r", "y", " ",
      "a", "g", "a", "i", "n", ".">>

\* time.sleep(10)
SleepSeconds == 10

\* text.startswith of three backticks; the backtick (U+0060) is written by its
\* code point, like the two characters that open QuotaMessage.
Fence == <<"U+0060", "U+0060", "U+0060">>

\* text[7:-3]
FenceSkip == 7
FenceTail == 3

input_prompt1 == "input_prompt1"
input_prompt2 == "input_prompt2"
input_prompt3 == "input_prompt3"

JobWarning == "Please enter a job description."
UploadWarning == "Please upload a resume."
ExtractError == "Could not extract skills. Please try again."

\* What the script puts on the page: the st.* call, its fixed text, and the
\* text computed at run time that follows it.
Shown(kind, text, body) == [kind |-> kind, text |-> text, body |-> body]

(***************************************************************************)
(* The provider and the two model clients                                  *)
(***************************************************************************)

\* What model.generate_content does: it returns a response with a text, raises
\* ResourceExhausted, or raises any other provider error.
Returned(text) == [kind |-> "text", text |-> text]
Raised(kind) == [kind |-> kind, text |-> <<>>]

\* get_gemini_response catching every exception: "except Exception:"
get_gemini_response_catch_all(outcome) ==
    IF outcome.kind = "text"
    THEN [raised |-> "none", text |-> outcome.text, slept |-> 0, calls |-> 1]
    ELSE [raised |-> "none", text |-> QuotaMessage, slept |-> SleepSeconds, calls |-> 1]

\* get_gemini_response calling the model again after the sleep
get_gemini_response_retry(outcome) ==
    IF outcome.kind = "text"
    THEN [raised |-> "none", text |-> outcome.text, slept |-> 0, calls |-> 1]
    ELSE IF outcome.kind = "ResourceExhausted"
    THEN [raised |-> "none", text |-> QuotaMessage, slept |-> SleepSeconds, calls |-> 2]
    ELSE [raised |-> outcome.kind, text |-> <<>>, slept |-> 0, calls |-> 1]

\* get_gemini_response: [raised, text, slept, calls]; calls counts the
\* generate_content calls made.
get_gemini_response(outcome) ==
    IF outcome.kind = "text"
    THEN [raised |-> "none", text |-> outcome.text, slept |-> 0, calls |-> 1]
    ELSE IF outcome.kind = "ResourceExhausted"
    THEN [raised |-> "none", text |-> QuotaMessage, slept |-> SleepSeconds, calls |-> 1]
    ELSE [raised |-> outcome.kind, text |-> <<>>, slept |-> 0, calls |-> 1]

\* Python's None as a value (also what json.loads gives for null).
NoneValue == [t |-> "null", v |-> <<>>]

\* The fence taken to be its three backticks alone: text[3:-3]
StripFence_backticks(responseText) ==
    IF StartsWith(Strip(responseText), Fence)
    THEN Slice(Strip(responseText), FenceTail, FenceTail)
    ELSE Strip(responseText)

\* Lines 35-37: the text handed to json.loads.
StripFence(responseText) ==
    LET text == Strip(responseText)
    IN  IF StartsWith(text, Fence) THEN Slice(text, FenceSkip, FenceTail) ELSE text

\* get_gemini_response_keywords catching ResourceExhausted alone
get_gemini_response_keywords_uncaught(outcome) ==
    IF outcome.kind = "text"
    THEN [raised |-> IF JsonLoads(StripFence(outcome.text)).ok
                     THEN "none" ELSE "JSONDecodeError",
          value |-> JsonLoads(StripFence(outcome.text)).val, calls |-> 1]
    ELSE IF outcome.kind = "ResourceExhausted"
    THEN [raised |-> "none", value |-> NoneValue, calls |-> 1]
    ELSE [raised |-> outcome.kind, value |-> NoneValue, calls |-> 1]

\* get_gemini_response_keywords: [raised, value, calls].
get_gemini_response_keywords(outcome) ==
    IF outcome.kind = "text"
    THEN LET r == JsonLoads(StripFence(outcome.text))
         IN  [raised |-> "none", value |-> IF r.ok THEN r.val ELSE NoneValue, calls |-> 1]
    ELSE IF outcome.kind = "ResourceExhausted"
    THEN [raised |-> "none", value |-> NoneValue, calls |-> 1]
    ELSE [raised |-> outcome.kind, value |-> NoneValue, calls |-> 1]

(***************************************************************************)
(* Rendering of the keyword result (lines 130-136)                         *)
(***************************************************************************)

\* bool(value), as "if response:" takes it
Truthy(value) ==
    CASE value.t \in {"null", "false"} -> FALSE
      [] value.t = "true" -> TRUE
      [] value.t = "num" -> value.v # <<"0">>
      [] OTHER -> value.v # <<>>

RECURSIVE DictGet(_, _, _)
\* dict.get(key, default): the last member with that key wins
DictGet(members, key, default) ==
    IF members = <<>> THEN default
    ELSE IF members[Len(members)][1] = key THEN members[Len(members)][2]
    ELSE DictGet(SubSeq(members, 1, Len(members) - 1), key, default)

RECURSIVE DictKeys(_, _)
\* The keys of a dict in insertion order
DictKeys(members, acc) ==
    IF members = <<>> THEN acc
    ELSE DictKeys(Tail(members),
                  IF \E i \in 1..Len(acc) : acc[i] = members[1][1]
                  THEN acc ELSE Append(acc, members[1][1]))

\* ', '.join(value): [ok, text]; ok = FALSE stands for the TypeError join raises
\* on a value that is not an iterable of strings.
JoinSkills(value) ==
    LET sep == <<",", " ">>
    IN  CASE value.t = "arr" ->
               IF \A i \in 1..Len(value.v) : value.v[i].t = "str"
               THEN [ok |-> TRUE,
                     text |-> Join(sep, [i \in 1..Len(value.v) |-> value.v[i].v])]
               ELSE [ok |-> FALSE, text |-> <<>>]
          [] value.t = "str" ->
               [ok |-> TRUE, text |-> Join(sep, [i \in 1..Len(value.v) |-> <<value.v[i]>>])]
          [] value.t = "obj" ->
               [ok |-> TRUE, text |-> Join(sep, DictKeys(value.v, <<>>))]
          [] OTHER -> [ok |-> FALSE, text |-> <<>>]

SkillLabel(c) ==
    CASE c = 1 -> "**Technical Skills:** "
      [] c = 2 -> "**Analytical Skills:** "
      [] c = 3 -> "**Soft Skills:** "

RECURSIVE WriteSkills(_, _, _)
\* The three st.write lines from category c on; a line whose f-string raises
\* ends the run with what was written before it.
WriteSkills(response, c, shown) ==
    IF c > Len(Categories) THEN [raised |-> "none", shown |-> shown]
    ELSE IF response.t # "obj" THEN [raised |-> "AttributeError", shown |-> shown]
    ELSE LET j == JoinSkills(DictGet(response.v, Categories[c], [t |-> "arr", v |-> <<>>]))
         IN  IF ~j.ok THEN [raised |-> "TypeError", shown |-> shown]
             ELSE WriteSkills(response, c + 1,
                              Append(shown, Shown("write", SkillLabel(c), j.text)))

\* Lines 130-136: [raised, shown]
RenderKeywords(response) ==
    IF Truthy(response)
    THEN WriteSkills(response, 1, <<Shown("subheader", "Extracted Skills", <<>>)>>)
    ELSE [raised |-> "none", shown |-> <<Shown("error", ExtractError, <<>>)>>]

(***************************************************************************)
(* The inputs: response texts, provider outcomes, job texts, files         *)
(***************************************************************************)

\* Longest skill list a response gives a category.
MaxSkills == 1

\* Number of distinct files a user can upload.
NumFiles == 3

DigitChar(n) == <<"0", "1", "2", "3", "4", "5", "6", "7", "8", "9">>[n + 1]

\* The k-th skill of category c: T1, A1, S1, T2, ...
SkillName(c, k) == <<Categories[c][1], DigitChar(k)>>

QuoteText(s) == <<"\"">> \o s \o <<"\"">>

ListText(c, n) ==
    <<"[">> \o Join(<<",">>, [k \in 1..n |-> QuoteText(SkillName(c, k))]) \o <<"]">>

MemberText(c, n) == QuoteText(Categories[c]) \o <<":">> \o ListText(c, n)

\* present[c] = -1: category c is absent; n >= 0: it has a list of n skills.
Presences == [1..3 -> -1..MaxSkills]

ObjectText(present) ==
    LET cs == SelectSeq(<<1, 2, 3>>, LAMBDA c : present[c] >= 0)
    IN  <<"{">> \o Join(<<",">>, [i \in 1..Len(cs) |-> MemberText(cs[i], present[cs[i]])])
               \o <<"}">>

\* Texts that are no mapping of the three categories to lists of strings.
OtherBodies ==
    { <<>>,
      <<"S", "u", "r", "e">>,
      <<"[", "]">>,
      <<"[">> \o QuoteText(<<"X">>) \o <<"]">>,
      <<"{">> \o QuoteText(<<"O", "t", "h", "e", "r">>) \o <<":", "[">>
              \o QuoteText(<<"X">>) \o <<"]", "}">>,
      <<"{">> \o QuoteText(TechnicalSkills) \o <<":">> \o QuoteText(<<"X", "Y">>) \o <<"}">>,
      <<"{">> \o QuoteText(SoftSkills) \o <<":", "[", "7", "]", "}">>,
      <<"{">> \o QuoteText(TechnicalSkills) \o <<":", "[">> \o QuoteText(<<"X">>) }

Bodies == {ObjectText(present) : present \in Presences} \cup OtherBodies

JsonFence == Fence \o <<"j", "s", "o", "n">>

\* How a response wraps its body.
Wrappers == {"bare", "json fence", "plain fence", "padded", "padded json fence", "open fence"}

Wrap(w, body) ==
    CASE w = "bare" -> body
      [] w = "json fence" -> JsonFence \o <<"\n">> \o body \o <<"\n">> \o Fence
      [] w = "plain fence" -> Fence \o <<"\n">> \o body \o <<"\n">> \o Fence
      [] w = "padded" -> <<" ">> \o body \o <<"\n">>
      [] w = "padded json fence" ->
           <<"\n">> \o JsonFence \o <<"\n">> \o body \o <<"\n">> \o Fence \o <<"\n">>
      [] w = "open fence" -> JsonFence \o <<"\n">> \o body

Responses == {Wrap(w, body) : w \in Wrappers, body \in Bodies}

\* The texts the provider answers the narrative prompts with.
NarrativeTexts == { <<>>, <<"S", "u", "r", "e">>, <<" ", "8", "0", "\n">> }

\* What one generate_content call can do when given the prompt of a branch.
Outcomes(b) ==
    {Returned(text) : text \in IF b = 2 THEN Responses ELSE NarrativeTexts}
        \cup {Raised("ResourceExhausted"), Raised("ProviderError")}

\* The job descriptions a user types: empty, whitespace only, and a text with
\* whitespace around it.
JobTexts == { <<>>, <<" ", "\n">>, <<" ", "J", "D", "\n">> }

\* The files a user can upload.  File f is a PDF of f % 3 pages; a file of no
\* page stands for one pdf2image cannot convert.
Files == 1..NumFiles

PageCount(f) == f % 3

\* The rendering of page k of file f
Page(f, k) == <<f, k>>

(***************************************************************************)
(* The document converter                                                  *)
(***************************************************************************)

\* The body of input_pdf_setup (lines 44-56): [raised, value]
Rasterize(file) ==
    IF file = None THEN [raised |-> "FileNotFoundError", value |-> <<>>]
    ELSE IF PageCount(file) = 0 THEN [raised |-> "ConversionError", value |-> <<>>]
    ELSE [raised |-> "none",
          value |-> <<[mime_type |-> "image/jpeg", data |-> Page(file, 1)]>>]

\* input_pdf_setup without its decorator: every call runs the body
CacheMiss_undecorated(store, file) == TRUE

\* st.cache_data: does the call run the body?  It does unless a value is stored
\* for the argument.
CacheMiss(store, file) == file \notin DOMAIN store

\* input_pdf_setup as decorated (lines 42-56):
\* [raised, value, ran, store]; ran tells whether the body ran, store is the
\* cache after the call.  A call that raises stores nothing.
input_pdf_setup(store, file) ==
    IF ~CacheMiss(store, file)
    THEN [raised |-> "none", value |-> store[file], ran |-> FALSE, store |-> store]
    ELSE LET r == Rasterize(file)
         IN  [raised |-> r.raised, value |-> r.value, ran |-> TRUE,
              store |-> IF r.raised = "none"
                        THEN [k \in DOMAIN store \cup {file} |->
                                 IF k = file THEN r.value ELSE store[k]]
                        ELSE store]

(***************************************************************************)
(* Validation and the button chain                                         *)
(***************************************************************************)

\* validate_inputs with its two tests in the other order
validate_inputs_slot_first(text, slot) ==
    IF slot = None
    THEN [ok |-> FALSE, shown |-> <<Shown("warning", UploadWarning, <<>>)>>]
    ELSE IF Strip(text) = <<>>
    THEN [ok |-> FALSE, shown |-> <<Shown("warning", JobWarning, <<>>)>>]
    ELSE [ok |-> TRUE, shown |-> <<>>]

\* validate_inputs testing the file picker in place of the session's slot
\* (the slot is never None where the picker holds a file, so the second test
\* is left without effect)
validate_inputs_no_slot(text, slot) ==
    IF Strip(text) = <<>>
    THEN [ok |-> FALSE, shown |-> <<Shown("warning", JobWarning, <<>>)>>]
    ELSE [ok |-> TRUE, shown |-> <<>>]

\* validate_inputs (lines 107-114): [ok, shown]
validate_inputs(text, slot) ==
    IF Strip(text) = <<>>
    THEN [ok |-> FALSE, shown |-> <<Shown("warning", JobWarning, <<>>)>>]
    ELSE IF slot = None
    THEN [ok |-> FALSE, shown |-> <<Shown("warning", UploadWarning, <<>>)>>]
    ELSE [ok |-> TRUE, shown |-> <<>>]

\* The chain without the calls of validate_inputs: "if submit1:", "elif submit2:"
Chain_unvalidated(buttons, b, v, acc) ==
    IF \E k \in 1..3 : buttons[k]
    THEN [branch |-> CHOOSE k \in 1..3 : buttons[k], validations |-> 0, shown |-> <<>>]
    ELSE [branch |-> 0, validations |-> 0, shown |-> <<>>]

RECURSIVE Chain(_, _, _, _)
\* The if/elif chain of lines 118, 125, 138 from button b on: the branch taken
\* (0: none), how often validate_inputs ran and what it showed.
Chain(buttons, b, v, acc) ==
    IF b > 3 THEN [branch |-> 0, validations |-> acc.validations, shown |-> acc.shown]
    ELSE IF ~buttons[b] THEN Chain(buttons, b + 1, v, acc)
    ELSE IF v.ok
    THEN [branch |-> b, validations |-> acc.validations + 1, shown |-> acc.shown]
    ELSE Chain(buttons, b + 1, v,
               [validations |-> acc.validations + 1, shown |-> acc.shown \o v.shown])

\* The prompt of a branch
Prompt(branch) ==
    CASE branch = 1 -> input_prompt1
      [] branch = 2 -> input_prompt2
      [] branch = 3 -> input_prompt3

\* The subheader of a narrative branch
Subheader(branch) == IF branch = 1 THEN "Resume Evaluation" ELSE "ATS Match Result"

\* Lines 121-123 and 141-143: [raised, shown, slept, calls]
NarrativeBranch(branch, outcome) ==
    LET r == get_gemini_response(outcome)
    IN  [raised |-> r.raised, slept |-> r.slept, calls |-> r.calls,
         shown |-> IF r.raised = "none"
                   THEN <<Shown("subheader", Subheader(branch), <<>>),
                          Shown("write", "", r.text)>>
                   ELSE <<>>]

\* Lines 128-136: [raised, shown, slept, calls]
KeywordBranch(outcome) ==
    LET r == get_gemini_response_keywords(outcome)
        k == RenderKeywords(r.value)
    IN  IF r.raised = "none"
        THEN [raised |-> k.raised, slept |-> 0, calls |-> r.calls, shown |-> k.shown]
        ELSE [raised |-> r.raised, slept |-> 0, calls |-> r.calls, shown |-> <<>>]

(***************************************************************************)
(* The session.  The script runs from top to bottom on every widget event; *)
(* a run with a button pressed is followed through its stages by pc.       *)
(***************************************************************************)

VARIABLES
    input_text,     \* the job description in the text area
    uploaded_file,  \* the file in the picker, or None
    resume,         \* st.session_state.resume
    cache,          \* the values st.cache_data stores for input_pdf_setup, by file
    submit,         \* submit1..submit3 of the current run
    pc,             \* stage of the current run
    branch,         \* the branch of the chain the run entered, 0 for none
    pdf_content,    \* pdf_content of the run: <<>> before the conversion
    shown,          \* what the run has put on the page
    raised,         \* the exception that ended the run, "none" otherwise
    calls,          \* generate_content calls of the run
    slept,          \* seconds the run slept
    validations,    \* validate_inputs calls of the run
    ran,            \* runs of the body of input_pdf_setup in the run
    payload,        \* the content lists the run sent to the model
    outcome,        \* what the provider did in the run
    rasterized,     \* history: images produced per file in the session
    last_uploaded,  \* history: the file uploaded last in the session, or None
    last_converted  \* history: the file of the latest input_pdf_setup call, or None

vars == <<input_text, uploaded_file, resume, cache, submit, pc, branch, pdf_content,
          shown, raised, calls, slept, validations, ran, payload, outcome,
          rasterized, last_uploaded, last_converted>>

\* Most images a session produces for one file before the model stops counting.
MaxRasterized == 3

NoButton == [b \in 1..3 |-> FALSE]
NoOutcome == Raised("none")

\* A run is over (or none has begun): the page waits for the next event.
Resting == pc \in {"idle", "rejected", "succeeded", "failed"}

Init ==
    /\ input_text = <<>>
    /\ uploaded_file = None
    /\ resume = None
    /\ cache = <<>>
    /\ submit = NoButton
    /\ pc = "idle"
    /\ branch = 0
    /\ pdf_content = <<>>
    /\ shown = <<>>
    /\ raised = "none"
    /\ calls = 0
    /\ slept = 0
    /\ validations = 0
    /\ ran = 0
    /\ payload = <<>>
    /\ outcome = NoOutcome
    /\ rasterized = [f \in Files |-> 0]
    /\ last_uploaded = None
    /\ last_converted = None

\* Lines 69-71 without the test: the slot follows the picker
SlotAfter_picker(picker, slot) == picker

\* Lines 66-71 for a run that finds picker in the file picker: the slot after
\* them and what they show.
SlotAfter(picker, slot) == IF picker # None THEN picker ELSE slot
ShownAtTop(picker) ==
    IF picker # None THEN <<Shown("success", "PDF uploaded successfully", <<>>)>> ELSE <<>>

\* A run begins: lines 60-82 with the given widget values.
BeginRun(text, picker, buttons) ==
    /\ input_text' = text
    /\ uploaded_file' = picker
    /\ resume' = SlotAfter(picker, resume)
    /\ submit' = buttons
    /\ shown' = ShownAtTop(picker)
    /\ branch' = 0
    /\ pdf_content' = <<>>
    /\ raised' = "none"
    /\ calls' = 0
    /\ slept' = 0
    /\ validations' = 0
    /\ ran' = 0
    /\ payload' = <<>>
    /\ outcome' = NoOutcome
    /\ UNCHANGED <<cache, rasterized, last_converted>>

\* A run without a button: no branch of the chain is entered (all submit are
\* False, so validate_inputs is not called either).
RunToEnd(text, picker) ==
    /\ BeginRun(text, picker, NoButton)
    /\ pc' = "idle"

\* The user puts file f into the picker.
Upload(f) ==
    /\ Resting
    /\ RunToEnd(input_text, f)
    /\ last_uploaded' = f

\* The user removes the file from the picker.
ClearPicker ==
    /\ Resting
    /\ uploaded_file # None
    /\ RunToEnd(input_text, None)
    /\ UNCHANGED last_uploaded

\* The user changes the job description.
EditText(text) ==
    /\ Resting
    /\ text # input_text
    /\ RunToEnd(text, uploaded_file)
    /\ UNCHANGED last_uploaded

\* The user presses button b: the run reaches the chain of line 118.
Press(b) ==
    /\ Resting
    /\ BeginRun(input_text, uploaded_file, [k \in 1..3 |-> k = b])
    /\ pc' = "validating"
    /\ UNCHANGED last_uploaded

\* The conditions of lines 118, 125, 138.
Validate ==
    /\ pc = "validating"
    /\ LET c == Chain(submit, 1, validate_inputs(input_text, resume),
                      [validations |-> 0, shown |-> <<>>])
       IN  /\ branch' = c.branch
           /\ validations' = c.validations
           /\ shown' = shown \o c.shown
           /\ pc' = IF c.branch = 0 THEN "rejected" ELSE "converting"
    /\ UNCHANGED <<input_text, uploaded_file, resume, cache, submit, pdf_content, raised,
                   calls, slept, ran, payload, outcome, rasterized, last_uploaded,
                   last_converted>>

\* Lines 120, 127, 140: pdf_content = input_pdf_setup(st.session_state.resume)
Convert ==
    /\ pc = "converting"
    /\ LET r == input_pdf_setup(cache, resume)
           made == r.ran /\ r.raised = "none"
       IN  /\ made => rasterized[resume] < MaxRasterized
           /\ cache' = r.store
           /\ ran' = IF r.ran THEN ran + 1 ELSE ran
           /\ rasterized' = IF made
                            THEN [rasterized EXCEPT ![resume] = @ + 1]
                            ELSE rasterized
           /\ pdf_content' = r.value
           /\ raised' = r.raised
           /\ pc' = IF r.raised = "none" THEN "requesting" ELSE "failed"
    /\ last_converted' = resume
    /\ UNCHANGED <<input_text, uploaded_file, resume, submit, branch, shown, calls, slept,
                   validations, payload, outcome, last_uploaded>>

\* The rest of the branch: the model client and the rendering of its result.
\* The run has a result when the provider answered and the branch rendered the
\* answer; it has failed when an exception ended it, the provider raised, or
\* st.error was shown.
\* The body of branch b after the conversion, when the provider does o:
\* [raised, shown, slept, calls]
RunBranch(b, o) == IF b = 2 THEN KeywordBranch(o) ELSE NarrativeBranch(b, o)

\* The state a run ends in when its branch gave r.
EndRun(o, r) ==
    /\ outcome' = o
    /\ payload' = [i \in 1..r.calls |->
                     [prompt |-> Prompt(branch), image |-> pdf_content[1],
                      job |-> input_text]]
    /\ shown' = shown \o r.shown
    /\ raised' = r.raised
    /\ calls' = calls + r.calls
    /\ slept' = slept + r.slept
    /\ pc' = IF \/ r.raised # "none"
                \/ o.kind # "text"
                \/ \E i \in 1..Len(r.shown) : r.shown[i].kind = "error"
             THEN "failed" ELSE "succeeded"

Request ==
    /\ pc = "requesting"
    /\ \E o \in Outcomes(branch) : EndRun(o, RunBranch(branch, o))
    /\ UNCHANGED <<input_text, uploaded_file, resume, cache, submit, branch, pdf_content,
                   validations, ran, rasterized, last_uploaded, last_converted>>

Next ==
    \/ \E f \in Files : Upload(f)
    \/ ClearPicker
    \/ \E text \in JobTexts : EditText(text)
    \/ \E b \in 1..3 : Press(b)
    \/ Validate
    \/ Convert
    \/ Request

Spec == Init /\ [][Next]_vars

\* The script is synchronous: a run that has begun goes on to its end (the
\* provider's client returns or raises).
LiveSpec ==
    /\ Spec
    /\ WF_vars(Validate)
    /\ WF_vars(Convert)
    /\ WF_vars(Request)

(***************************************************************************)
(* Properties                                                              *)
(***************************************************************************)

\* The run began with a button pressed.
Pressed == submit # NoButton

\* A run with a button pressed is over.
Ended == Pressed /\ pc \in {"rejected", "succeeded", "failed"}

\* The texts of the warnings on the page
WarningsShown ==
    LET ws == SelectSeq(shown, LAMBDA e : e.kind = "warning")
    IN  [i \in 1..Len(ws) |-> ws[i].text]

\* What the run showed after the top of the script
BranchShown == SubSeq(shown, Len(ShownAtTop(uploaded_file)) + 1, Len(shown))

\* The run neither converted nor called the model.
NothingDone == calls = 0 /\ payload = <<>> /\ ran = 0 /\ pdf_content = <<>>

\* C1: with a job description that is empty (or, as the script strips it,
\* made of whitespace), a press of any button, with or without an uploaded
\* file, gets no further than validation, converts nothing, calls the model
\* not at all and ends rejected with the job-description warning as its only
\* warning.
EmptyJobTextRejected ==
    (Pressed /\ Strip(input_text) = <<>>) =>
        /\ pc \in {"validating", "rejected"}
        /\ NothingDone
        /\ pc = "rejected" => WarningsShown = <<JobWarning>>

\* A press of "Get Keywords" with an empty job description and a file uploaded
\* has been rejected.
EmptyJobTextWitness ==
    /\ Ended /\ submit[2] /\ input_text = <<>> /\ resume # None
    /\ pc = "rejected"

\* C2 as claimed: with no file in the picker and a job description that is
\* not the empty text, a press calls the model not at all and ends with the
\* upload warning.
NoFileInPickerRejected ==
    (Pressed /\ uploaded_file = None /\ input_text # <<>>) =>
        /\ calls = 0
        /\ Ended => WarningsShown = <<UploadWarning>>

\* C2 as amended: when the session's slot is empty (no file was uploaded in the
\* session) and the job description is not empty once stripped, a press gets
\* no further than validation, converts nothing, calls the model not at all
\* and ends rejected with the upload warning as its only warning.
EmptySlotRejected ==
    (Pressed /\ resume = None /\ Strip(input_text) # <<>>) =>
        /\ pc \in {"validating", "rejected"}
        /\ NothingDone
        /\ pc = "rejected" => WarningsShown = <<UploadWarning>>

\* A press with a job description and no file ever uploaded has been rejected.
EmptySlotWitness ==
    /\ Ended /\ resume = None /\ last_uploaded = None /\ Strip(input_text) # <<>>
    /\ pc = "rejected"

\* C3: on the narrative and percentage paths, when the provider raises
\* ResourceExhausted the run has made exactly one model request, slept the
\* fixed delay, raised nothing, and shown the literal quota message as the
\* result under the branch's subheader.
QuotaOnNarrativePath ==
    (Ended /\ branch \in {1, 3} /\ outcome.kind = "ResourceExhausted") =>
        /\ calls = 1
        /\ Len(payload) = 1
        /\ slept = SleepSeconds
        /\ raised = "none"
        /\ BranchShown = <<Shown("subheader", Subheader(branch), <<>>),
                           Shown("write", "", QuotaMessage)>>

\* A "Percentage Match" press has met quota exhaustion.
QuotaOnNarrativeWitness ==
    Ended /\ branch = 3 /\ outcome.kind = "ResourceExhausted" /\ slept = SleepSeconds

\* The keyword run failed for one of the two causes of C4.
KeywordFailure ==
    /\ Ended /\ branch = 2
    /\ \/ outcome.kind = "ResourceExhausted"
       \/ outcome.kind = "text" /\ ~JsonLoads(StripFence(outcome.text)).ok

\* C4: on the keyword path, when the provider raises ResourceExhausted or the
\* response text is no valid JSON after fence-stripping, the client returns
\* None and the run ends with the generic extraction-failure message and
\* nothing else shown by the branch: no exception, no skill lists, and the
\* same page for both causes.
KeywordFailureShowsError ==
    KeywordFailure =>
        /\ get_gemini_response_keywords(outcome).value = NoneValue
        /\ raised = "none"
        /\ BranchShown = <<Shown("error", ExtractError, <<>>)>>
        /\ calls = 1

\* A keyword run has ended on a response that is no JSON after fence-stripping
\* (a mapping inside a fence without the json tag).
KeywordFailureWitness ==
    /\ KeywordFailure
    /\ outcome.kind = "text"
    /\ outcome.text = Wrap("plain fence", ObjectText([c \in 1..3 |-> 1]))

\* The keyword run got a response text from the provider.
KeywordText == Ended /\ branch = 2 /\ outcome.kind = "text"

\* The three lines the keyword branch is to write for a mapping with the
\* members ms: each category's list comma-joined, an absent category as [].
SkillLines(ms) ==
    [c \in 1..3 |->
        Shown("write", SkillLabel(c),
              JoinSkills(DictGet(ms, Categories[c], [t |-> "arr", v |-> <<>>])).text)]

\* value is a mapping that gives each of the three categories it holds a list
\* of strings.
SkillMapping(value) ==
    /\ value.t = "obj"
    /\ \A i \in 1..Len(value.v) :
          value.v[i][1] \in {Categories[c] : c \in 1..3} =>
              /\ value.v[i][2].t = "arr"
              /\ \A k \in 1..Len(value.v[i][2].v) : value.v[i][2].v[k].t = "str"

\* C5: for every keyword-path response that parses to a mapping (of the three
\* categories it holds to lists of strings), the run shows the subheader and
\* the three comma-joined lists under their labels, an absent category as an
\* empty list, whichever of the three categories are present, none included.
MappingRendersThreeLists ==
    (KeywordText /\ JsonLoads(StripFence(outcome.text)).ok
                 /\ SkillMapping(JsonLoads(StripFence(outcome.text)).val)) =>
        /\ raised = "none"
        /\ BranchShown = <<Shown("subheader", "Extracted Skills", <<>>)>>
                            \o SkillLines(JsonLoads(StripFence(outcome.text)).val.v)

\* The response of the spec's example, with the skills T1 and S1 for A and B:
\* the json fence around Technical Skills ["T1"], Analytical Skills [], Soft
\* Skills ["S1"].
ExampleBody == ObjectText(<<1, 0, 1>>)
ExampleResponse == Wrap("json fence", ExampleBody)

\* The bodies that are JSON
JsonBodies == {body \in Bodies : JsonLoads(body).ok}

\* C6: a response that is a json fence line, a JSON text and a closing fence
\* (with or without whitespace around it) parses to the value of the enclosed
\* JSON text and is rendered as that value is; the example renders as
\* Technical Skills: T1, Analytical Skills: (empty), Soft Skills: S1; a
\* response that does not start with a fence is parsed as it is.
FenceStripped ==
    KeywordText =>
        /\ \A body \in JsonBodies :
              outcome.text \in {Wrap("json fence", body), Wrap("padded json fence", body)} =>
                  /\ get_gemini_response_keywords(outcome).value = JsonLoads(body).val
                  /\ BranchShown = RenderKeywords(JsonLoads(body).val).shown
                  /\ raised = RenderKeywords(JsonLoads(body).val).raised
        /\ outcome.text = ExampleResponse =>
              BranchShown = <<Shown("subheader", "Extracted Skills", <<>>),
                              Shown("write", "**Technical Skills:** ", <<"T", "1">>),
                              Shown("write", "**Analytical Skills:** ", <<>>),
                              Shown("write", "**Soft Skills:** ", <<"S", "1">>)>>
        /\ ~StartsWith(Strip(outcome.text), Fence) =>
              get_gemini_response_keywords(outcome).value =
                  IF JsonLoads(outcome.text).ok
                  THEN JsonLoads(outcome.text).val ELSE NoneValue

\* A keyword run has ended on the example response and shown its lists.
FenceStrippedWitness ==
    /\ KeywordText /\ outcome.text = ExampleResponse
    /\ pc = "succeeded" /\ Len(BranchShown) = 4

\* The image of the first page of file f
ImageOf(f) == <<[mime_type |-> "image/jpeg", data |-> Page(f, 1)]>>

\* The images a session has produced are the cached ones, one per file at most,
\* and the image a run holds and sends is that of the file in the slot.
OneImagePerFile ==
    /\ \A f \in Files : rasterized[f] <= 1
    /\ DOMAIN cache = {f \in Files : rasterized[f] = 1}
    /\ \A f \in DOMAIN cache : cache[f] = ImageOf(f)
    /\ pdf_content # <<>> => pdf_content = ImageOf(resume)
    /\ \A i \in 1..Len(payload) : <<payload[i].image>> = ImageOf(resume)

\* A conversion step: a file with a cached image is not converted again and
\* the run gets the cached image; a file without one is converted (and, if it
\* converts, its image is cached).
ConvertStep ==
    pc = "converting" /\ pc' # "converting" =>
        /\ resume \in DOMAIN cache =>
              ran' = 0 /\ rasterized' = rasterized /\ pdf_content' = cache[resume]
        /\ resume \notin DOMAIN cache =>
              /\ ran' = 1
              /\ PageCount(resume) # 0 =>
                    rasterized' = [rasterized EXCEPT ![resume] = 1]

StageInv ==
    /\ pc \in {"idle", "validating", "rejected", "converting", "requesting",
               "succeeded", "failed"}
    /\ pc \in {"converting", "requesting", "succeeded", "failed"} =>
          /\ Pressed
          /\ branch \in 1..3 /\ submit[branch]
          /\ validations = 1
          /\ validate_inputs(input_text, resume).ok
          /\ resume # None
    /\ pc \in {"idle", "validating", "rejected"} => branch = 0 /\ NothingDone
    /\ (ran > 0 \/ pdf_content # <<>> \/ last_converted # None) =>
          raised # "FileNotFoundError"
    /\ pc = "requesting" => pdf_content # <<>> /\ calls = 0
    /\ calls > 0 => pdf_content # <<>> /\ pc \in {"succeeded", "failed"}
    /\ calls <= 1 /\ Len(payload) = calls
    /\ pc = "succeeded" => calls = 1 /\ raised = "none"

RestingStages == {"idle", "rejected", "succeeded", "failed"}

\* The stages of a press as the spec draws them.
DrawnStages ==
    {<<"validating", "rejected">>, <<"validating", "converting">>,
     <<"converting", "requesting">>, <<"requesting", "succeeded">>,
     <<"requesting", "failed">>}
        \cup (RestingStages \X {"idle", "validating"})

\* C8 as amended: every press follows idle -> validating -> (rejected |
\* converting -> (failed | requesting -> (succeeded | failed))): a conversion
\* that raises ends the press as failed with no request.  The converter is
\* called only after validation passed, the model only with an image and
\* once at most, one branch runs at most, and every press ends rejected,
\* succeeded or failed.
PressStages ==
    /\ []StageInv
    /\ [][pc' # pc => <<pc, pc'>> \in DrawnStages \cup {<<"converting", "failed">>}]_vars
    /\ (pc = "validating") ~> Ended

\* C8 as claimed: a press fails only out of its request.
PressStagesAsDrawn ==
    /\ []StageInv
    /\ [][pc' # pc => <<pc, pc'>> \in DrawnStages]_vars
    /\ (pc = "validating") ~> Ended

\* A press with a file that does not convert has failed without a request.
PressStagesWitness ==
    Ended /\ pc = "failed" /\ raised = "ConversionError" /\ calls = 0 /\ ran = 1

\* C9: a provider error other than quota exhaustion is caught on neither
\* path: the run ends failed with that exception, the branch has shown
\* nothing (no result, no quota message, no extraction-failure message), and
\* one request was made.
OtherProviderErrorPropagates ==
    (Ended /\ outcome.kind = "ProviderError") =>
        /\ pc = "failed"
        /\ raised = "ProviderError"
        /\ BranchShown = <<>>
        /\ calls = 1 /\ Len(payload) = 1
        /\ slept = 0

\* A "Tell Me About the Resume" press has met a provider error.
OtherProviderErrorWitness ==
    Ended /\ branch = 1 /\ outcome.kind = "ProviderError" /\ pc = "failed"

\* C10: the session's slot holds the file uploaded last (None only if none was
\* uploaded); it changes only in the run of an upload, to the file uploaded,
\* and no press, validation outcome, model error or clearing of the picker
\* changes it.
ResumeIsLastUpload ==
    /\ [](resume = last_uploaded /\ resume \in Files \cup {None})
    /\ [][resume' # resume =>
             /\ uploaded_file' \in Files
             /\ resume' = uploaded_file'
             /\ pc' = "idle" /\ ~Pressed']_vars

\* With file 1 converted earlier, file 2 was uploaded in its place and taken
\* out of the picker again, and a press has since failed: the slot holds 2.
ResumeIsLastUploadWitness ==
    /\ Ended /\ pc = "failed" /\ uploaded_file = None /\ resume = 2
    /\ rasterized[1] = 1

====
